---- MODULE Spec2Model ----
(***************************************************************************)
(* Module resolution and definition elaboration of yatima:                 *)
(* src/parse/package.rs (parse_open, parse_defn, parse_package,            *)
(* parse_file) and the interactive shell src/repl.rs (main).               *)
(*                                                                         *)
(* A name is the sequence of its dot-separated segments ("N.x" is          *)
(* <<"N","x">>); a path is the sequence of its components and a component  *)
(* the sequence of its dot-separated parts ("~/a.ya" is                    *)
(* << <<"~">>, <<"a","ya">> >>).  A Link is the place of a content in the  *)
(* content store: equal contents have equal Links.                         *)
(***************************************************************************)
EXTENDS Integers, Sequences, FiniteSets, TLC

VARIABLES
  entry,      \* "file": a driver calls parse_file on a root; "repl": the shell
  inputs,     \* which family of source texts the run draws from
  fs,         \* the file system, as far as the run has read it
  hashspace,  \* the content store: one table per kind of content
  stack,      \* the nested parse_file calls, innermost last
  status,     \* "run", "done" (parse_file returned / shell left), "panic"
  err,        \* the error of the panic, or of the last failed shell line
  alts,       \* the last alternation: its input and the branches it ran
  result,     \* what the root parse_file returned
  repl        \* the shell's loop state

vars == <<entry, inputs, fs, hashspace, stack, status, err, alts, result, repl>>

----------------------------------------------------------------------------
(* Bounds of the model *)

\* declarations per file, in the families other than the import graphs
MaxDecls == 2
\* path imports in all the files of an import graph together
MaxImports == 4
\* lines read by the shell
MaxLines == 2

----------------------------------------------------------------------------
(* Paths: std::path::PathBuf as package.rs uses it *)

Stems == {"a", "b", "c", "d"}

FilePath(stem) == << <<"~">>, <<stem, "ya">> >>

\* repl.rs:113  PathBuf::from("~/repl_tmp")
ReplPath == << <<"~">>, <<"repl_tmp">> >>

\* Path::parent
parent(p) == SubSeq(p, 1, Len(p) - 1)

\* Path::file_name
file_name(p) == p[Len(p)]

\* PathBuf::set_extension on the last component
set_extension(p, e) ==
  LET c == p[Len(p)]
      stem == IF Len(c) > 1 THEN SubSeq(c, 1, Len(c) - 1) ELSE c
  IN  [p EXCEPT ![Len(p)] = stem \o <<e>>]

\* package.rs:149-153
import_path(envpath, name) ==
  set_extension(parent(envpath) \o [i \in 1..Len(name) |-> <<name[i]>>], "ya")

\* package.rs:234  format!("{}.ya", name)
name_os(name) == name \o <<"ya">>

\* the test of package.rs:235 dropped
misnamed_package_unchecked(name, path) == FALSE

\* package.rs:235  the declared name does not name the file
misnamed_package(name, path) == name_os(name) /= file_name(path)

----------------------------------------------------------------------------
(* Links and the content store (hashspace) *)

NoLink == [kind |-> "none", ix |-> 0]

Has(tab, c) == \E i \in 1..Len(tab) : tab[i] = c

IxOf(tab, c) ==
  IF Has(tab, c) THEN CHOOSE i \in 1..Len(tab) : tab[i] = c ELSE Len(tab) + 1

\* the Link hashspace::put returns for content c of a kind
link_of(hs, kind, c) == [kind |-> kind, ix |-> IxOf(hs[kind], c)]

\* the store after hashspace::put: storing a content twice changes nothing
put(hs, kind, c) ==
  IF Has(hs[kind], c) THEN hs ELSE [hs EXCEPT ![kind] = Append(@, c)]

stored(hs, kind, l) == l.kind = kind /\ l.ix \in 1..Len(hs[kind])

----------------------------------------------------------------------------
(* Refs, Defs and their merges (crate::package) *)

Empty == <<>>

Insert(m, k, v) == [x \in DOMAIN m \cup {k} |-> IF x = k THEN v ELSE m[x]]

\* package::merge_defs: union keyed by Link
merge_defs(left, right) ==
  [l \in DOMAIN left \cup DOMAIN right |->
     IF l \in DOMAIN right THEN right[l] ELSE left[l]]

NoWith == [some |-> FALSE, names |-> {}]
With(ns) == [some |-> TRUE, names |-> ns]

\* the name an imported name k is exposed under
exposed(alias, k) == alias \o k

\* package::merge_refs: selection keeps the listed names, the alias prefixes
\* every kept name, the result is put into the importer's table
merge_refs(left, right, alias, with) ==
  LET kept == {k \in DOMAIN right : with.some => k \in with.names}
      keys == {exposed(alias, k) : k \in kept}
  IN  [n \in DOMAIN left \cup keys |->
         IF n \in keys
           THEN right[CHOOSE k \in kept : exposed(alias, k) = n]
           ELSE left[n]]

\* Package::get_link: the package behind a Link, if the store holds one
get_link_ok(hs, l) == stored(hs, "pack", l)
get_link(hs, l) == hs.pack[l.ix]

NoNs == [ok |-> FALSE, refs |-> Empty, defs |-> Empty]

\* Package::refs_defs: the namespace of a stored package, re-elaborated from
\* its declarations
RECURSIVE refs_defs_from(_, _, _, _, _)
refs_defs_from(hs, decls, k, refs, defs) ==
  IF k > Len(decls) THEN [ok |-> TRUE, refs |-> refs, defs |-> defs]
  ELSE LET d == decls[k] IN
    IF d.tag = "Defn"
      THEN IF ~stored(hs, "def", d.defn) THEN NoNs
           ELSE refs_defs_from(hs, decls, k + 1,
                  Insert(refs, d.name, <<d.defn, d.term>>),
                  Insert(defs, d.defn, hs.def[d.defn.ix]))
      ELSE IF ~get_link_ok(hs, d.from) THEN NoNs
           ELSE LET sub == refs_defs_from(hs, get_link(hs, d.from).decls, 1,
                                          Empty, Empty)
                IN  IF ~sub.ok THEN NoNs
                    ELSE refs_defs_from(hs, decls, k + 1,
                           merge_refs(refs, sub.refs, d.alias, d.with),
                           merge_defs(defs, sub.defs))

refs_defs(hs, pack) == refs_defs_from(hs, pack.decls, 1, Empty, Empty)

----------------------------------------------------------------------------
(* Source text: what one declaration (or one shell line) reads as *)

\* kw    the leading keyword: "def", "open", ":browse", ":quit", "expr"
\*       (a bare expression), "junk" (neither def nor open), "eof"
\* uses  the names the term refers to; body, typ: the term's and type's text
\* link  the explicit Link of an open, NoLink when the open has none
Src(kw, name, uses, body, alias, with, link) ==
  [kw |-> kw, name |-> name, uses |-> uses, body |-> body, typ |-> 0,
   alias |-> alias, with |-> with, link |-> link]

SrcDef(name, uses, body) == Src("def", name, uses, body, <<>>, NoWith, NoLink)
SrcOpen(name, alias, with, link) == Src("open", name, {}, 0, alias, with, link)
SrcExpr(uses) == Src("expr", <<>>, uses, 7, <<>>, NoWith, NoLink)
Junk == Src("junk", <<>>, {}, 0, <<>>, NoWith, NoLink)
Eof == Src("eof", <<>>, {}, 0, <<>>, NoWith, NoLink)
Browse == Src(":browse", <<>>, {}, 0, <<>>, NoWith, NoLink)
Quit == Src(":quit", <<>>, {}, 0, <<>>, NoWith, NoLink)

NameX == <<"x">>
NameY == <<"y">>
AliasN == <<"N">>

\* a package stored by an earlier run: package real where def x, def y
RealType == [body |-> 0, env |-> Empty]
RealX == [body |-> 5, env |-> Empty]
RealY == [body |-> 6, env |-> Empty]
RealTerms == <<RealType, RealX, RealY>>
RealDefs ==
  << [pos |-> 1, name |-> NameX, docs |-> "", typ |-> [kind |-> "term", ix |-> 1],
      term |-> [kind |-> "term", ix |-> 2]],
     [pos |-> 2, name |-> NameY, docs |-> "", typ |-> [kind |-> "term", ix |-> 1],
      term |-> [kind |-> "term", ix |-> 3]] >>
RealDecl(i) ==
  [tag |-> "Defn", name |-> RealDefs[i].name, alias |-> <<>>, with |-> NoWith,
   from |-> NoLink, defn |-> [kind |-> "def", ix |-> i],
   term |-> RealDefs[i].term]
RealPack ==
  [name |-> <<"real">>, docs |-> "", source |-> [kind |-> "text", ix |-> 1],
   decls |-> <<RealDecl(1), RealDecl(2)>>]
RealLink == [kind |-> "pack", ix |-> 1]
\* a Link nothing was ever stored under
DanglingLink == [kind |-> "pack", ix |-> 0]

\* the declarations a file of the import-graph family may hold: plain path
\* imports of any file, and one definition named after the file
StemIx(s) == CASE s = "a" -> 1 [] s = "b" -> 2 [] s = "c" -> 3 [] OTHER -> 4
GraphAlphabet(path) ==
  {SrcOpen(<<s>>, <<>>, NoWith, NoLink) : s \in Stems}
    \cup {SrcDef(<<file_name(path)[1]>>, {}, StemIx(file_name(path)[1]))}

\* the declarations of the other families: definitions, path imports and
\* explicit-link imports with alias and selection, and malformed text
RichAlphabet ==
  { SrcDef(NameX, {}, 5), SrcDef(NameY, {NameX}, 6), SrcDef(NameX, {}, 8),
    SrcOpen(<<"b">>, <<>>, NoWith, NoLink),
    SrcOpen(<<"b">>, AliasN, NoWith, NoLink),
    SrcOpen(<<"b">>, <<>>, With({NameX}), NoLink),
    SrcOpen(<<"real">>, <<>>, NoWith, RealLink),
    SrcOpen(<<"real">>, AliasN, NoWith, RealLink),
    SrcOpen(<<"real">>, <<>>, With({NameX}), RealLink),
    SrcOpen(<<"claimed">>, <<>>, NoWith, RealLink),
    SrcOpen(<<"real">>, <<>>, NoWith, DanglingLink),
    Junk }


\* what the shell may read at its prompt
Lines ==
  RichAlphabet \cup {Browse, Quit, SrcExpr({}), SrcExpr({NameX}), SrcExpr({AliasN \o NameX})}

----------------------------------------------------------------------------
(* Errors and parser results *)

Error(kind, name, link, actual, path) ==
  [kind |-> kind, name |-> name, link |-> link, actual |-> actual, path |-> path]

NoErr == Error("none", <<>>, NoLink, <<>>, <<>>)
\* a nom error of an external parser (tag, parse_name, the term parser)
NomErr == Error("Nom", <<>>, NoLink, <<>>, <<>>)

NoDecl ==
  [tag |-> "none", name |-> <<>>, alias |-> <<>>, with |-> NoWith,
   from |-> NoLink, defn |-> NoLink, term |-> NoLink]

NoEnv == [path |-> <<>>, open |-> {}]

\* st: "ok"; "nomatch" (Err::Error before the keyword matched); "err"
\* (Err::Error after it matched); "call" (parse_open is about to call
\* parse_file with env)
Res(st, e, decl, refs, defs, hs, env) ==
  [st |-> st, err |-> e, decl |-> decl, refs |-> refs, defs |-> defs,
   hs |-> hs, env |-> env]

Failed(st, e, hs) == Res(st, e, NoDecl, Empty, Empty, hs, NoEnv)

----------------------------------------------------------------------------
(* The declaration parsers *)

\* term::parse_typed_definition resolves every name of the term in refs
\* and fails on a name refs does not bind
resolves(refs, src) == src.uses \subseteq DOMAIN refs

\* the parsed term: its text with each name bound to what refs gives it
term_of(refs, body, uses) == [body |-> body, env |-> [n \in uses |-> refs[n]]]

\* package.rs:212 dropped: the definition's name is not put into refs
parse_defn_unbound(refs, defs, hs, src, pos) ==
  IF src.kw /= "def"
    THEN [st |-> "nomatch",
          err |-> [kind |-> "Nom", name |-> <<>>, link |-> NoLink,
                   actual |-> <<>>, path |-> <<>>],
          decl |-> NoDecl, refs |-> Empty, defs |-> Empty, hs |-> hs,
          env |-> NoEnv]
  ELSE IF ~(src.uses \subseteq DOMAIN refs)
    THEN [st |-> "err",
          err |-> [kind |-> "Nom", name |-> <<>>, link |-> NoLink,
                   actual |-> <<>>, path |-> <<>>],
          decl |-> NoDecl, refs |-> Empty, defs |-> Empty, hs |-> hs,
          env |-> NoEnv]
  ELSE
    LET t == [body |-> src.body, env |-> [n \in src.uses |-> refs[n]]]
        ty == [body |-> src.typ, env |-> Empty]
        h1 == put(hs, "term", ty)
        h2 == put(h1, "term", t)
        d == [pos |-> pos, name |-> src.name, docs |-> "",
              typ |-> link_of(hs, "term", ty), term |-> link_of(h1, "term", t)]
    IN  [st |-> "ok",
         err |-> [kind |-> "none", name |-> <<>>, link |-> NoLink,
                  actual |-> <<>>, path |-> <<>>],
         decl |-> [tag |-> "Defn", name |-> src.name, alias |-> <<>>,
                   with |-> NoWith, from |-> NoLink,
                   defn |-> link_of(h2, "def", d),
                   term |-> link_of(h1, "term", t)],
         refs |-> refs,
         defs |-> Insert(defs, link_of(h2, "def", d), d),
         hs |-> put(h2, "def", d), env |-> NoEnv]

\* package.rs:212 putting the name into refs only when refs does not bind
\* it yet: the first definition of a name wins
parse_defn_keeps_first(refs, defs, hs, src, pos) ==
  LET r == parse_defn_unbound(refs, defs, hs, src, pos) IN
  IF r.st /= "ok" \/ src.name \in DOMAIN refs THEN r
  ELSE [r EXCEPT !.refs = Insert(refs, src.name,
                                 <<r.decl.defn, r.decl.term>>)]

\* package.rs:213 dropped: the record is not put into defs
parse_defn_unrecorded(refs, defs, hs, src, pos) ==
  LET r == parse_defn_unbound(refs, defs, hs, src, pos) IN
  IF r.st /= "ok" THEN r
  ELSE [r EXCEPT !.refs = Insert(refs, src.name,
                                 <<r.decl.defn, r.decl.term>>),
                 !.defs = defs]

\* package.rs:184-215
parse_defn(refs, defs, hs, src, pos) ==
  IF src.kw /= "def" THEN Failed("nomatch", NomErr, hs)
  ELSE IF ~resolves(refs, src) THEN Failed("err", NomErr, hs)
  ELSE
    LET typ_ == term_of(refs, src.typ, {})
        term == term_of(refs, src.body, src.uses)
        hs1 == put(hs, "term", typ_)
        type_link == link_of(hs, "term", typ_)
        hs2 == put(hs1, "term", term)
        term_link == link_of(hs1, "term", term)
        def == [pos |-> pos, name |-> src.name, docs |-> "",
                typ |-> type_link, term |-> term_link]
        hs3 == put(hs2, "def", def)
        def_link == link_of(hs2, "def", def)
        def_decl == [tag |-> "Defn", name |-> src.name, alias |-> <<>>,
                     with |-> NoWith, from |-> NoLink, defn |-> def_link,
                     term |-> term_link]
    IN  Res("ok", NoErr, def_decl,
            Insert(refs, src.name, <<def_link, term_link>>),
            Insert(defs, def_link, def), hs3, NoEnv)

\* package.rs:73 with the path itself put into the set
PackageEnv_new_with_self(path) == [path |-> path, open |-> {path}]

\* package.rs:72-74
PackageEnv_new(path) == [path |-> path, open |-> {}]

\* package.rs:154-156 with one set shared by every import of the run in
\* place of the clone of env.open: a path once opened stays in it
has_path_shared(open, path) == path \in open \/ path \in DOMAIN fs

\* the test of package.rs:156 dropped: no import is ever taken for a cycle
has_path_never(open, path) == FALSE

\* package.rs:154-156  im::HashSet::insert returns the value it replaced
has_path(open, path) == path \in open

\* package.rs:160 with env.open in place of the clone the path was put in
import_env_stale(env, path) == [path |-> path, open |-> env.open]

\* package.rs:160  the environment the imported file is parsed in
import_env(env, path) == [path |-> path, open |-> env.open \cup {path}]

OpenDecl(src, from) ==
  [tag |-> "Open", name |-> src.name, alias |-> src.alias, with |-> src.with,
   from |-> from, defn |-> NoLink, term |-> NoLink]

\* the test of package.rs:130 dropped: the fetched package's name is not
\* compared with the name written
open_link_unchecked(refs, defs, hs, src) ==
  IF ~get_link_ok(hs, src.link)
    THEN Failed("err", Error("EmbeddingError", <<>>, src.link, <<>>, <<>>), hs)
  ELSE LET ns == refs_defs(hs, get_link(hs, src.link)) IN
    IF ~ns.ok
      THEN Failed("err", Error("EmbeddingError", <<>>, src.link, <<>>, <<>>),
                  hs)
      ELSE Res("ok", NoErr, OpenDecl(src, src.link),
               merge_refs(refs, ns.refs, src.alias, src.with),
               merge_defs(defs, ns.defs), hs, NoEnv)

\* package.rs:126-147  the import by explicit Link
open_link(refs, defs, hs, src) ==
  IF ~get_link_ok(hs, src.link)
    THEN Failed("err", Error("EmbeddingError", <<>>, src.link, <<>>, <<>>), hs)
  ELSE LET pack == get_link(hs, src.link) IN
    IF src.name /= pack.name
      THEN Failed("err",
             Error("MisnamedImport", src.name, src.link, pack.name, <<>>), hs)
    ELSE LET ns == refs_defs(hs, pack) IN
      IF ~ns.ok
        THEN Failed("err",
               Error("EmbeddingError", <<>>, src.link, <<>>, <<>>), hs)
        ELSE Res("ok", NoErr, OpenDecl(src, src.link),
                 merge_refs(refs, ns.refs, src.alias, src.with),
                 merge_defs(defs, ns.defs), hs, NoEnv)

\* package.rs:148-160  the import by path, up to the call of parse_file
open_path(refs, defs, hs, env, src) ==
  LET path == import_path(env.path, src.name) IN
  IF has_path(env.open, path)
    THEN Failed("err", Error("ImportCycle", <<>>, NoLink, <<>>, path), hs)
    ELSE Res("call", NoErr, NoDecl, refs, defs, hs, import_env(env, path))

\* package.rs:162 dropped: the imported definitions are not merged
open_resume_keeps_defs(refs, defs, hs, src, ret) ==
  [st |-> "ok", err |-> [kind |-> "none", name |-> <<>>, link |-> NoLink,
                         actual |-> <<>>, path |-> <<>>],
   decl |-> [tag |-> "Open", name |-> src.name, alias |-> src.alias,
             with |-> src.with, from |-> ret.link, defn |-> NoLink,
             term |-> NoLink],
   refs |-> merge_refs(refs, ret.refs, src.alias, src.with),
   defs |-> defs, hs |-> hs, env |-> [path |-> <<>>, open |-> {}]]

\* package.rs:168 with the Link of the file's text in place of the Link
\* of its package
open_resume_source_link(refs, defs, hs, src, ret) ==
  [st |-> "ok", err |-> [kind |-> "none", name |-> <<>>, link |-> NoLink,
                         actual |-> <<>>, path |-> <<>>],
   decl |-> [tag |-> "Open", name |-> src.name, alias |-> src.alias,
             with |-> src.with, from |-> ret.pack.source, defn |-> NoLink,
             term |-> NoLink],
   refs |-> merge_refs(refs, ret.refs, src.alias, src.with),
   defs |-> merge_defs(defs, ret.defs), hs |-> hs,
   env |-> [path |-> <<>>, open |-> {}]]

\* package.rs:164 with an empty alias in place of the one written
open_resume_drops_alias(refs, defs, hs, src, ret) ==
  [st |-> "ok", err |-> [kind |-> "none", name |-> <<>>, link |-> NoLink,
                         actual |-> <<>>, path |-> <<>>],
   decl |-> [tag |-> "Open", name |-> src.name, alias |-> src.alias,
             with |-> src.with, from |-> ret.link, defn |-> NoLink,
             term |-> NoLink],
   refs |-> merge_refs(refs, ret.refs, <<>>, src.with),
   defs |-> merge_defs(defs, ret.defs), hs |-> hs,
   env |-> [path |-> <<>>, open |-> {}]]

\* package.rs:161-172  the import by path, from the return of parse_file
open_resume(refs, defs, hs, src, ret) ==
  Res("ok", NoErr, OpenDecl(src, ret.link),
      merge_refs(refs, ret.refs, src.alias, src.with),
      merge_defs(defs, ret.defs), hs, NoEnv)

\* package.rs:116-176
parse_open(refs, defs, hs, env, src) ==
  IF src.kw /= "open" THEN Failed("nomatch", NomErr, hs)
  ELSE IF src.link /= NoLink THEN open_link(refs, defs, hs, src)
  ELSE open_path(refs, defs, hs, env, src)

Tried(branch, r) == [branch |-> branch, st |-> r.st, err |-> r.err]

\* package.rs:259 with the tables the definition branch left in place of
\* clones of the loop's tables
alt_decl_threaded(refs, defs, hs, env, src, pos) ==
  LET r1 == parse_defn(refs, defs, hs, src, pos)
      r2 == parse_open(r1.refs, r1.defs, hs, env, src) IN
  IF r1.st = "ok"
    THEN [res |-> r1, tried |-> <<Tried("defn", r1)>>]
    ELSE [res |-> r2, tried |-> <<Tried("defn", r1), Tried("open", r2)>>]

\* nom's alt over (parse_defn, parse_open): package.rs:257-260, repl.rs:70-73.
\* The second branch runs on the same input when the first ends in
\* Err::Error, whether or not its keyword had matched.
alt_decl(refs, defs, hs, env, src, pos) ==
  LET r1 == parse_defn(refs, defs, hs, src, pos)
      r2 == parse_open(refs, defs, hs, env, src) IN
  IF r1.st = "ok"
    THEN [res |-> r1, tried |-> <<Tried("defn", r1)>>]
    ELSE [res |-> r2, tried |-> <<Tried("defn", r1), Tried("open", r2)>>]

----------------------------------------------------------------------------
(* The file system, read lazily: a file's existence and header are fixed  *)
(* when the file is first read, each declaration when it is first parsed. *)
(* A file read again reads the same.                                       *)

stem_of(path) == SubSeq(file_name(path), 1, Len(file_name(path)) - 1)

NoFile == [exists |-> FALSE, pkg |-> <<>>, decls |-> <<>>, closed |-> TRUE]

Files(path) ==
  IF path \in DOMAIN fs THEN {fs[path]}
  ELSE {NoFile} \cup
       { [exists |-> TRUE, pkg |-> n, decls |-> <<>>, closed |-> FALSE] :
           n \in {stem_of(path), <<"bar">>} }

Opens(path) ==
  IF path \in DOMAIN fs
    THEN Cardinality({i \in 1..Len(fs[path].decls) :
                        fs[path].decls[i].kw = "open"})
    ELSE 0

ImportsUsed ==
  Opens(FilePath("a")) + Opens(FilePath("b")) + Opens(FilePath("c"))
    + Opens(FilePath("d"))

\* what a file may hold after the declarations read so far: in an import
\* graph a definition only in front, and imports while the graph has fewer
\* than MaxImports; elsewhere anything, up to MaxDecls declarations
Alphabet(path) ==
  IF inputs = "graph"
    THEN {t \in GraphAlphabet(path) :
            IF t.kw = "def" THEN Len(fs[path].decls) = 0
            ELSE ImportsUsed < MaxImports}
    ELSE IF Len(fs[path].decls) < MaxDecls THEN RichAlphabet ELSE {}

Tokens(path, k) ==
  LET f == fs[path] IN
  IF k <= Len(f.decls) THEN {f.decls[k]}
  ELSE IF f.closed THEN {Eof}
  ELSE {Eof} \cup Alphabet(path)

Learn(path, k, tok) ==
  LET f == fs[path] IN
  IF k <= Len(f.decls) \/ f.closed THEN fs
  ELSE IF tok = Eof THEN [fs EXCEPT ![path].closed = TRUE]
  ELSE [fs EXCEPT ![path].decls = Append(@, tok)]

----------------------------------------------------------------------------
(* State *)

NoPack == [name |-> <<>>, docs |-> "", source |-> NoLink, decls |-> <<>>]

\* what parse_file returns: (Link, Package, Defs, Refs)
Ret(link, pack, defs, refs) ==
  [link |-> link, pack |-> pack, defs |-> defs, refs |-> refs]

NoRet == Ret(NoLink, NoPack, Empty, Empty)

\* one call of parse_file: phase "enter" before the header is accepted,
\* "body" inside the loop of parse_package, pos the declaration it is at
Frame(env, phase, name, source, pos, refs, defs, decls) ==
  [env |-> env, phase |-> phase, name |-> name, source |-> source,
   pos |-> pos, refs |-> refs, defs |-> defs, decls |-> decls]

\* package.rs:270-271
Call(env) == Frame(env, "enter", <<>>, NoLink, 0, Empty, Empty, <<>>)

Top == stack[Len(stack)]

RealText == << <<"~">>, <<"real", "ya">> >>

\* repl.rs:110-113
ReplInit == [refs |-> Empty, defs |-> Empty, decls |-> <<>>, lines |-> 0,
             pending |-> Eof, env |-> PackageEnv_new(ReplPath)]

Init ==
  /\ entry \in {"file", "repl"}
  /\ inputs \in {"graph", "rich"}
  /\ entry = "repl" => inputs = "rich"
  /\ fs = Empty
  /\ hashspace = [text |-> <<RealText>>, term |-> RealTerms,
                  def |-> RealDefs, pack |-> <<RealPack>>]
  /\ stack = IF entry = "file"
               THEN <<Call(PackageEnv_new(FilePath("a")))>> ELSE <<>>
  /\ status = "run"
  /\ err = NoErr
  /\ alts = [src |-> Eof, tried |-> <<>>]
  /\ result = NoRet
  /\ repl = ReplInit

----------------------------------------------------------------------------
(* parse_file and parse_package *)

\* package.rs:277-279 returning the error to the caller in place of the
\* panic: the failed call is left and the caller goes on
Panic_returns(e) ==
  /\ status' = status
  /\ err' = e
  /\ stack' = SubSeq(stack, 1, Len(stack) - 1)
  /\ UNCHANGED <<result, repl>>

\* package.rs:272, 277-279  expect / panic!: the process ends
Panic(e) ==
  /\ status' = "panic"
  /\ err' = e
  /\ UNCHANGED <<stack, result, repl>>

\* parse_file reads the file and parse_package accepts its header
\* (package.rs:270-275, 223-246)
EnterFile ==
  /\ status = "run" /\ stack /= <<>> /\ Top.phase = "enter"
  /\ LET path == Top.env.path IN
     \E f \in Files(path) :
       /\ fs' = Insert(fs, path, f)
       /\ UNCHANGED <<entry, inputs, alts>>
       /\ IF ~f.exists
            THEN /\ Panic(Error("FileNotFound", <<>>, NoLink, <<>>, path))
                 /\ UNCHANGED hashspace
            ELSE /\ hashspace' = put(hashspace, "text", path)
                 /\ IF misnamed_package(f.pkg, path)
                      THEN Panic(Error("MisnamedPackage", f.pkg, NoLink,
                                       <<>>, <<>>))
                      ELSE /\ stack' = [stack EXCEPT ![Len(stack)] =
                                 Frame(Top.env, "body", f.pkg,
                                       link_of(hashspace, "text", path),
                                       1, Empty, Empty, <<>>)]
                           /\ UNCHANGED <<status, err, result, repl>>

\* one turn of the loop of parse_package on a declaration
\* (package.rs:247-265): the alternation, then the namespace advances (ok),
\* parse_file is called (call), or the error leaves parse_package and
\* parse_file panics
Declaration(tok) ==
  /\ status = "run" /\ stack /= <<>> /\ Top.phase = "body"
  /\ tok \in Tokens(Top.env.path, Top.pos)
  /\ fs' = Learn(Top.env.path, Top.pos, tok)
  /\ \E a \in {alt_decl(Top.refs, Top.defs, hashspace, Top.env, tok,
                          Top.pos)} :
     \E r \in {a.res} :
         /\ alts' = [src |-> tok, tried |-> a.tried]
         /\ UNCHANGED <<entry, inputs>>
         /\ IF r.st = "ok"
              THEN /\ stack' = [stack EXCEPT ![Len(stack)] =
                         [Top EXCEPT !.refs = r.refs, !.defs = r.defs,
                                     !.decls = Append(@, r.decl),
                                     !.pos = @ + 1]]
                   /\ hashspace' = r.hs
                   /\ UNCHANGED <<status, err, result, repl>>
            ELSE IF r.st = "call"
              THEN /\ stack' = Append(stack, Call(r.env))
                   /\ UNCHANGED <<hashspace, status, err, result, repl>>
              ELSE /\ Panic(r.err)
                   /\ UNCHANGED hashspace

AllTokens ==
  RichAlphabet \cup UNION {GraphAlphabet(FilePath(s)) : s \in Stems}

ParseDefn == \E tok \in AllTokens : tok.kw = "def" /\ Declaration(tok)

ParseOpenLink == \E tok \in AllTokens :
  tok.kw = "open" /\ tok.link /= NoLink /\ Declaration(tok)

ParseOpenPath == \E tok \in AllTokens :
  tok.kw = "open" /\ tok.link = NoLink /\ Declaration(tok)

ParseJunk == Declaration(Junk)

\* package.rs:252 with the declarations left out
package_of_no_decls(f) ==
  [name |-> f.name, docs |-> "", source |-> f.source, decls |-> <<>>]

\* package.rs:252  the package of a file whose input has ended
package_of(f) ==
  [name |-> f.name, docs |-> "", source |-> f.source, decls |-> f.decls]

\* package.rs:253-254  what parse_package returns at the end of input
returned(f, hs) ==
  Ret(link_of(hs, "pack", package_of(f)), package_of(f), f.defs, f.refs)

AtEnd ==
  /\ status = "run" /\ stack /= <<>> /\ Top.phase = "body"
  /\ Eof \in Tokens(Top.env.path, Top.pos)
  /\ fs' = Learn(Top.env.path, Top.pos, Eof)
  /\ hashspace' = put(hashspace, "pack", package_of(Top))

\* end of input in an imported file: the package is stored, parse_file
\* returns into parse_open of the importing file (package.rs:250-255,
\* 161-172), whose loop takes the merged namespace (package.rs:261-264)
ReturnToImporter ==
  /\ AtEnd /\ Len(stack) > 1
  /\ \E c \in {stack[Len(stack) - 1]} :
     \E src \in {fs[c.env.path].decls[c.pos]} :
     \E r \in {open_resume(c.refs, c.defs, hashspace', src,
                           returned(Top, hashspace))} :
         /\ stack' = [SubSeq(stack, 1, Len(stack) - 1) EXCEPT
                        ![Len(stack) - 1] =
                          [c EXCEPT !.refs = r.refs, !.defs = r.defs,
                                    !.decls = Append(@, r.decl),
                                    !.pos = @ + 1]]
         /\ alts' = [src |-> src, tried |->
                      <<Tried("defn", Failed("nomatch", NomErr, hashspace)),
                        Tried("open", r)>>]
  /\ UNCHANGED <<entry, inputs, status, err, result, repl>>

\* end of input in the root file: parse_file returns to the driver
ReturnToDriver ==
  /\ AtEnd /\ Len(stack) = 1 /\ entry = "file"
  /\ result' = returned(Top, hashspace)
  /\ stack' = <<>>
  /\ status' = "done"
  /\ UNCHANGED <<entry, inputs, err, alts, repl>>

----------------------------------------------------------------------------
(* The shell (repl.rs) *)

\* repl.rs:87-95
parse_browse(src, hs) ==
  IF src.kw = ":browse" THEN Res("ok", NoErr, NoDecl, Empty, Empty, hs, NoEnv)
  ELSE Failed("nomatch", NomErr, hs)

\* repl.rs:97-105
parse_quit(src, hs) ==
  IF src.kw = ":quit" THEN Res("ok", NoErr, NoDecl, Empty, Empty, hs, NoEnv)
  ELSE Failed("nomatch", NomErr, hs)

\* repl.rs:78-86  term::parse_expression fails on text that is no
\* expression and on a name refs does not bind
parse_eval(refs, src, hs) ==
  IF src.kw = "expr" /\ resolves(refs, src)
    THEN Res("ok", NoErr, NoDecl, Empty, Empty, hs, NoEnv)
    ELSE Failed("nomatch", NomErr, hs)

\* repl.rs:93 returning Command::Help, a command the loop has no arm for
alt_repl_help(defs, refs, env, hs, src) ==
  LET rb == parse_browse(src, hs)
      rq == parse_quit(src, hs)
      d == alt_decl(refs, defs, hs, env, src, 1)
      re == parse_eval(refs, src, hs)
  IN  IF rb.st = "ok"
        THEN [cmd |-> "Help", res |-> rb, tried |-> <<Tried("browse", rb)>>]
      ELSE IF rq.st = "ok"
        THEN [cmd |-> "Quit", res |-> rq,
              tried |-> <<Tried("browse", rb), Tried("quit", rq)>>]
      ELSE IF d.res.st \in {"ok", "call"}
        THEN [cmd |-> "Decl", res |-> d.res,
              tried |-> <<Tried("browse", rb), Tried("quit", rq)>> \o d.tried]
      ELSE [cmd |-> IF re.st = "ok" THEN "Eval" ELSE "none", res |-> re,
            tried |-> <<Tried("browse", rb), Tried("quit", rq)>> \o d.tried
                        \o <<Tried("eval", re)>>]

\* repl.rs:127-128 in the other order: parse_eval before parse_decl
alt_repl_eval_first(defs, refs, env, hs, src) ==
  LET rb == parse_browse(src, hs)
      rq == parse_quit(src, hs)
      re == parse_eval(refs, src, hs)
      d == alt_decl(refs, defs, hs, env, src, 1)
  IN  IF rb.st = "ok"
        THEN [cmd |-> "Browse", res |-> rb, tried |-> <<Tried("browse", rb)>>]
      ELSE IF rq.st = "ok"
        THEN [cmd |-> "Quit", res |-> rq,
              tried |-> <<Tried("browse", rb), Tried("quit", rq)>>]
      ELSE IF re.st = "ok"
        THEN [cmd |-> "Eval", res |-> re,
              tried |-> <<Tried("browse", rb), Tried("quit", rq),
                          Tried("eval", re)>>]
      ELSE [cmd |-> IF d.res.st \in {"ok", "call"} THEN "Decl" ELSE "none",
            res |-> d.res,
            tried |-> <<Tried("browse", rb), Tried("quit", rq),
                        Tried("eval", re)>> \o d.tried]

\* repl.rs:124-129  alt((parse_browse, parse_quit, parse_decl, parse_eval)):
\* each branch runs when the one before ended in Err::Error
alt_repl(defs, refs, env, hs, src) ==
  LET rb == parse_browse(src, hs)
      rq == parse_quit(src, hs)
      d == alt_decl(refs, defs, hs, env, src, 1)
      re == parse_eval(refs, src, hs)
  IN  IF rb.st = "ok"
        THEN [cmd |-> "Browse", res |-> rb, tried |-> <<Tried("browse", rb)>>]
      ELSE IF rq.st = "ok"
        THEN [cmd |-> "Quit", res |-> rq,
              tried |-> <<Tried("browse", rb), Tried("quit", rq)>>]
      ELSE IF d.res.st \in {"ok", "call"}
        THEN [cmd |-> "Decl", res |-> d.res,
              tried |-> <<Tried("browse", rb), Tried("quit", rq)>> \o d.tried]
      ELSE [cmd |-> IF re.st = "ok" THEN "Eval" ELSE "none", res |-> re,
            tried |-> <<Tried("browse", rb), Tried("quit", rq)>> \o d.tried
                        \o <<Tried("eval", re)>>]

\* repl.rs:148  panic!("todo repl command")
TodoReplCommand == Error("Todo", <<>>, NoLink, <<>>, <<>>)

\* one turn of the loop on a line read (repl.rs:120-163)
ReadLine ==
  /\ entry = "repl" /\ status = "run" /\ stack = <<>>
  /\ repl.lines < MaxLines
  /\ \E line \in Lines :
       \E a \in {alt_repl(repl.defs, repl.refs, repl.env, hashspace, line)} :
       \E r \in {a.res} :
       \E read \in {[repl EXCEPT !.lines = @ + 1]} :
           /\ alts' = [src |-> line, tried |-> a.tried]
           /\ UNCHANGED <<entry, inputs, fs, result>>
           /\ IF a.cmd = "Quit"
                THEN /\ status' = "done"
                     /\ repl' = read
                     /\ UNCHANGED <<hashspace, stack, err>>
              ELSE IF a.cmd \in {"Browse", "Eval"}
                THEN /\ repl' = read
                     /\ UNCHANGED <<hashspace, stack, status, err>>
              ELSE IF a.cmd = "Decl" /\ r.st = "ok"
                THEN /\ repl' = [read EXCEPT !.refs = r.refs, !.defs = r.defs,
                                            !.decls = Append(@, r.decl)]
                     /\ hashspace' = r.hs
                     /\ UNCHANGED <<stack, status, err>>
              ELSE IF a.cmd = "Decl"
                THEN /\ repl' = [read EXCEPT !.pending = line]
                     /\ stack' = <<Call(r.env)>>
                     /\ UNCHANGED <<hashspace, status, err>>
              ELSE IF a.cmd = "none"
                THEN /\ repl' = read
                     /\ err' = r.err
                     /\ UNCHANGED <<hashspace, stack, status>>
              ELSE /\ repl' = read
                   /\ status' = "panic"
                   /\ err' = TodoReplCommand
                   /\ UNCHANGED <<hashspace, stack>>

\* end of input in a file the shell imported: parse_file returns into
\* parse_open of the line (package.rs:161-172), the loop takes the
\* namespace and keeps the declaration (repl.rs:131-147)
ReturnToShell ==
  /\ AtEnd /\ Len(stack) = 1 /\ entry = "repl"
  /\ \E r \in {open_resume(repl.refs, repl.defs, hashspace', repl.pending,
                           returned(Top, hashspace))} :
         /\ repl' = [repl EXCEPT !.refs = r.refs, !.defs = r.defs,
                                 !.decls = Append(@, r.decl),
                                 !.pending = Eof]
         /\ alts' = [src |-> repl.pending, tried |->
                      <<Tried("browse", Failed("nomatch", NomErr, hashspace)),
                        Tried("quit", Failed("nomatch", NomErr, hashspace)),
                        Tried("defn", Failed("nomatch", NomErr, hashspace)),
                        Tried("open", r)>>]
  /\ stack' = <<>>
  /\ UNCHANGED <<entry, inputs, status, err, result>>

\* readline fails: interrupt, end of input, read error (repl.rs:164-176)
ReadError ==
  /\ entry = "repl" /\ status = "run" /\ stack = <<>>
  /\ status' = "done"
  /\ UNCHANGED <<entry, inputs, fs, hashspace, stack, err, alts, result, repl>>

----------------------------------------------------------------------------

Next ==
  \/ ReadError
  \/ EnterFile
  \/ ReturnToDriver
  \/ ReturnToImporter
  \/ ReturnToShell
  \/ ParseDefn
  \/ ParseOpenLink
  \/ ParseOpenPath
  \/ ParseJunk
  \/ ReadLine

Spec == Init /\ [][Next]_vars

----------------------------------------------------------------------------
(* The import graph of the files read *)

IsPathOpen(d) == d.kw = "open" /\ d.link = NoLink

\* the files a file imports by path, in the order of its text
imports_of(p) ==
  IF p \in DOMAIN fs
    THEN LET sel == SelectSeq(fs[p].decls, IsPathOpen)
         IN  [i \in 1..Len(sel) |-> import_path(p, sel[i].name)]
    ELSE <<>>

\* every file read exists and is named after its package
WellFormed ==
  \A p \in DOMAIN fs : fs[p].exists /\ fs[p].pkg = stem_of(p)

A == FilePath("a")
B == FilePath("b")
C == FilePath("c")
D == FilePath("d")

TwoCycle == imports_of(A) = <<B>> /\ imports_of(B) = <<A>>

ThreeCycle ==
  imports_of(A) = <<B>> /\ imports_of(B) = <<C>> /\ imports_of(C) = <<A>>

----------------------------------------------------------------------------
(* C1: when a imports b and b imports a by path (or a -> b -> c -> a), *)
(* parse_file on a, started with PackageEnv::new, fails with ImportCycle *)
(* and the error carries a's resolved path.                              *)
C1_CycleNamesRoot ==
  (entry = "file" /\ status /= "run" /\ WellFormed
     /\ (TwoCycle \/ ThreeCycle))
    => (status = "panic" /\ err.kind = "ImportCycle" /\ err.path = A)

----------------------------------------------------------------------------
(* C2: on an acyclic import graph (the diamond a -> b, a -> c, b -> d,    *)
(* c -> d among them) parse_file on the root never raises ImportCycle and *)
(* succeeds, and the definition store it returns holds exactly the        *)
(* distinct definition Links reachable from the root, each once.          *)

Succ(p) == {imports_of(p)[i] : i \in 1..Len(imports_of(p))}

RECURSIVE reach(_, _)
reach(S, n) ==
  IF n = 0 THEN S ELSE reach(S \cup UNION {Succ(p) : p \in S}, n - 1)

Cyclic == \E p \in DOMAIN fs : p \in reach(Succ(p), Cardinality(DOMAIN fs))

\* the definition Links a stored package declares or reaches by its imports
RECURSIVE def_links(_, _)
def_links(hs, pack) ==
  LET ds == {pack.decls[i] : i \in 1..Len(pack.decls)} IN
  {d.defn : d \in {e \in ds : e.tag = "Defn"}}
    \cup UNION {def_links(hs, hs.pack[d.from.ix]) :
                  d \in {e \in ds : e.tag = "Open"}}

\* C2: without a cycle among the files read there is no ImportCycle, a
\* well-formed graph parses, and the returned definition store holds exactly
\* the definition Links reachable from the root package, each once
C2_DiamondNoDuplicates ==
  ~Cyclic =>
    /\ ~(status = "panic" /\ err.kind = "ImportCycle")
    /\ (entry = "file" /\ inputs = "graph" /\ WellFormed /\ status /= "run")
         => status = "done"
    /\ (entry = "file" /\ status = "done")
         => /\ DOMAIN result.defs = def_links(hashspace, result.pack)
            /\ Cardinality(DOMAIN result.defs)
                 = Cardinality(def_links(hashspace, result.pack))

HasDef(p) == \E i \in 1..Len(fs[p].decls) : fs[p].decls[i].kw = "def"

C2_Witness_Diamond ==
  /\ entry = "file" /\ status = "done"
  /\ imports_of(A) = <<B, C>> /\ imports_of(B) = <<D>>
  /\ imports_of(C) = <<D>> /\ imports_of(D) = <<>>
  /\ HasDef(D) /\ HasDef(B) /\ HasDef(C)
  /\ Cardinality(DOMAIN result.defs) = 3

----------------------------------------------------------------------------
(* C3: every call of parse_file ends, by returning or by the panic, on   *)
(* cyclic import graphs too, and the calls never nest deeper than the     *)
(* number of distinct files plus one.                                     *)

FilesRead == {p \in DOMAIN fs : fs[p].exists}

\* the program is sequential: it takes its next step whenever it has one
LiveSpec == Spec /\ WF_vars(Next)

\* C3: the nesting of parse_file never exceeds the number of distinct files
\* read plus one, and every run of parse_file ends, by return or by panic
C3_Terminates ==
  /\ [](Len(stack) <= Cardinality(FilesRead) + 1)
  /\ (stack /= <<>>) ~> (stack = <<>> \/ status = "panic")

C3_Witness_CycleAtFullDepth ==
  /\ status = "panic" /\ err.kind = "ImportCycle"
  /\ Cardinality(FilesRead) = 4
  /\ Len(stack) = Cardinality(FilesRead) + 1

----------------------------------------------------------------------------
(* C4: parse_package goes past the header only if the declared name      *)
(* followed by ".ya" is the base name of env.path; otherwise it fails     *)
(* with MisnamedPackage(declared name) before any declaration is parsed   *)
(* and without storing a package; for the root and for imported files.    *)

NoPackageOf(p) ==
  \A i \in 1..Len(hashspace.pack) :
    hashspace.pack[i].source /= link_of(hashspace, "text", p)

\* C4: a file is parsed past its header only under its own name; a file
\* with another package name panics with MisnamedPackage(that name), no
\* declaration read, no package stored
C4_PackageNamedAfterFile ==
  /\ \A i \in 1..Len(stack) :
       stack[i].phase = "body"
         => stack[i].name \o <<"ya">> = stack[i].env.path[Len(stack[i].env.path)]
  /\ \A p \in DOMAIN fs :
       (fs[p].exists /\ fs[p].pkg \o <<"ya">> /= p[Len(p)])
         => /\ status = "panic"
            /\ err = Error("MisnamedPackage", fs[p].pkg, NoLink, <<>>, <<>>)
            /\ Top.env.path = p /\ Top.phase = "enter"
            /\ fs[p].decls = <<>>
            /\ NoPackageOf(p)
  /\ (status = "panic" /\ err.kind = "MisnamedPackage")
       => fs[Top.env.path].pkg \o <<"ya">> /= file_name(Top.env.path)

C4_Witness_MisnamedImportedFile ==
  /\ status = "panic" /\ err.kind = "MisnamedPackage" /\ err.name = <<"bar">>
  /\ Len(stack) = 2 /\ stack[1].phase = "body" /\ stack[1].name = <<"a">>

----------------------------------------------------------------------------
(* C5: for open <name> ... <link>: EmbeddingError if the store returns no *)
(* package for the link; otherwise MisnamedImport(name, link, package's   *)
(* name) if the names differ. In both cases no Declaration is produced    *)
(* and the caller's reference table and definition store are unchanged.   *)

LinkOpen == alts.src.kw = "open" /\ alts.src.link /= NoLink

\* the result of the branch parse_open in the last alternation
OpenTried ==
  alts.tried[CHOOSE i \in 1..Len(alts.tried) : alts.tried[i].branch = "open"]

\* C5, the error chosen: EmbeddingError for a Link the store lacks, else
\* MisnamedImport(name, link, package's name) when the names differ
C5_LinkErrors ==
  LinkOpen =>
    LET s == alts.src
        o == OpenTried
    IN  IF ~(s.link.kind = "pack" /\ s.link.ix \in 1..Len(hashspace.pack))
          THEN o.st = "err" /\ o.err.kind = "EmbeddingError"
        ELSE IF hashspace.pack[s.link.ix].name /= s.name
          THEN /\ o.st = "err"
               /\ o.err = Error("MisnamedImport", s.name, s.link,
                                hashspace.pack[s.link.ix].name, <<>>)
          ELSE o.st = "ok"

\* C5, the effect: a failed import by Link adds no declaration and leaves
\* every reference table, definition store and the hashspace as they were
C5_FailedLinkOpenChangesNothing ==
  (LinkOpen' /\ OpenTried'.st = "err")
    => /\ stack' = stack
       /\ repl'.refs = repl.refs /\ repl'.defs = repl.defs
       /\ repl'.decls = repl.decls
       /\ hashspace' = hashspace

\* C5: both halves, in every state and at every step
C5_ExplicitLinkErrors ==
  []C5_LinkErrors /\ [][C5_FailedLinkOpenChangesNothing]_vars

C5_Witness_MisnamedImport ==
  /\ LinkOpen /\ alts.src.name = <<"claimed">>
  /\ OpenTried.err.kind = "MisnamedImport"
  /\ OpenTried.err.actual = <<"real">>
  /\ stack /= <<>> /\ Top.pos = 2 /\ Len(Top.decls) = 1

----------------------------------------------------------------------------
(* Steps that complete an import or a call of parse_file *)

Returns == Len(stack') < Len(stack)

\* the caller of the innermost parse_file: the importing file, or the shell
Caller == IF Len(stack) > 1 THEN stack[Len(stack) - 1] ELSE repl

\* who parses the current declaration, before and after a step
Before == IF Returns THEN Caller ELSE IF stack /= <<>> THEN Top ELSE repl
After == IF stack' /= <<>> THEN stack'[Len(stack')] ELSE repl'

\* the step adds an import declaration to the one parsing
Imports ==
  /\ Len(stack') <= Len(stack)
  /\ Len(After.decls) = Len(Before.decls) + 1
  /\ After.decls[Len(After.decls)].tag = "Open"

\* the namespace imported by the step: what parse_file returned, or what
\* the package behind the explicit Link elaborates to
Imported ==
  IF Returns THEN [refs |-> Top.refs, defs |-> Top.defs]
  ELSE LET ns == refs_defs(hashspace, hashspace.pack[alts'.src.link.ix])
       IN  [refs |-> ns.refs, defs |-> ns.defs]

----------------------------------------------------------------------------
(* C6: after open M as N the importer's reference table holds N.k for     *)
(* every name k of M, and a bare k only if it held it before; after       *)
(* open M (x) it gains the selected names of M and no other; the          *)
(* definition stores are united whatever the alias and the selection.     *)

\* C6, one step: the importer's tables after an import are its tables
\* before, plus the kept names of the import under the alias, plus all the
\* imported definitions
C6_Merge ==
  Imports =>
    LET s == alts'.src
        M == Imported
        kept == {k \in DOMAIN M.refs : s.with.some => k \in s.with.names}
        keys == {s.alias \o k : k \in kept}
    IN  /\ DOMAIN After.refs = DOMAIN Before.refs \cup keys
        /\ \A k \in kept : After.refs[s.alias \o k] = M.refs[k]
        /\ \A n \in DOMAIN Before.refs \ keys : After.refs[n] = Before.refs[n]
        /\ DOMAIN After.defs = DOMAIN Before.defs \cup DOMAIN M.defs
        /\ \A l \in DOMAIN M.defs : After.defs[l] = M.defs[l]

\* C6: every step that completes an import merges so
C6_AliasAndSelection == [][C6_Merge]_vars

C6_Witness_AliasedPathImport ==
  /\ stack /= <<>> /\ status = "run"
  /\ alts.src = SrcOpen(<<"b">>, AliasN, NoWith, NoLink)
  /\ Len(Top.decls) = 1 /\ Top.decls[1].tag = "Open"
  /\ DOMAIN Top.refs = {AliasN \o NameX, AliasN \o NameY}
  /\ Cardinality(DOMAIN Top.defs) = 2

----------------------------------------------------------------------------
(* C7: in every running parse_package the reference table at declaration  *)
(* k is exactly what declarations 1..k-1 of that file give, in file       *)
(* order, from an empty table: no later declaration and nothing of the    *)
(* importing file is in it; a definition using a name not yet bound       *)
(* fails.                                                                  *)

C7_ForwardOnlyScope ==
  /\ \A i \in 1..Len(stack) :
       stack[i].phase = "body" =>
         LET f == stack[i]
             text == fs[f.env.path].decls
             ns == refs_defs_from(hashspace, f.decls, 1, Empty, Empty)
         IN  /\ Len(f.decls) = f.pos - 1
             /\ f.pos - 1 <= Len(text)
             /\ \A j \in 1..Len(f.decls) :
                  /\ f.decls[j].name = text[j].name
                  /\ f.decls[j].tag = "Defn" <=> text[j].kw = "def"
             /\ ns.ok /\ f.refs = ns.refs /\ f.defs = ns.defs
  /\ (stack /= <<>> /\ alts.src.kw = "def"
        /\ ~(alts.src.uses \subseteq DOMAIN Top.refs))
       => (status = "panic" /\ err.kind = "Nom")

C7_Witness_SecondUsesFirst ==
  /\ stack /= <<>> /\ status = "run" /\ Top.pos = 3
  /\ fs[Top.env.path].decls = <<SrcDef(NameX, {}, 5), SrcDef(NameY, {NameX}, 6)>>
  /\ DOMAIN Top.refs = {NameX, NameY}

----------------------------------------------------------------------------
(* C8: once parse_open has matched its keyword, a failure of it is the    *)
(* last thing the alternation does on that input: no branch runs after    *)
(* it.                                                                     *)

C8_CommittedOpenIsHard ==
  \A i \in 1..Len(alts.tried) :
    (alts.tried[i].branch = "open" /\ alts.tried[i].st = "err")
      => i = Len(alts.tried)

----------------------------------------------------------------------------
(* C9: a failure while a file is read or parsed, at any depth, ends the   *)
(* process: no step leaves a panic, every failure inside parse_file is a  *)
(* panic, and a call of parse_file is left only by a return that gives    *)
(* the importer an import declaration (or the driver a result).           *)

LastTried == alts.tried[Len(alts.tried)]

\* C9, failures: a missing file and a failed alternation inside parse_file
\* are panics carrying that error
C9_FailuresPanic ==
  /\ \A p \in DOMAIN fs :
       ~fs[p].exists => /\ status = "panic" /\ err.kind = "FileNotFound"
                        /\ err.path = p /\ Top.env.path = p
  /\ (stack /= <<>> /\ alts.tried /= <<>>
        /\ LastTried.st \in {"err", "nomatch"})
       => (status = "panic" /\ err = LastTried.err)
  /\ status = "panic" => (stack /= <<>> /\ err /= NoErr /\ result = NoRet)

\* C9, steps: nothing follows a panic; a panic unwinds nothing; parse_file
\* is left only by a return that hands the caller its import (or result)
C9_Step ==
  /\ status /= "panic"
  /\ status' = "panic" => (stack' = stack /\ repl' = repl)
  /\ Returns =>
       /\ Len(stack') = Len(stack) - 1
       /\ status' /= "panic"
       /\ \/ Imports /\ After.decls[Len(After.decls)].from.kind = "pack"
          \/ /\ entry = "file" /\ stack' = <<>> /\ status' = "done"
             /\ result' /= NoRet

\* C9: both, in every state and at every step
C9_FileEntryIsFatal == []C9_FailuresPanic /\ [][C9_Step]_vars

C9_Witness_CycleInsideImport ==
  /\ status = "panic" /\ err.kind = "ImportCycle" /\ Len(stack) = 3
  /\ stack[1].pos = 1 /\ stack[1].decls = <<>>
  /\ stack[2].pos = 1 /\ stack[2].decls = <<>>

----------------------------------------------------------------------------
(* C10: parse_package returns only at the end of input; the package has   *)
(* the file's declarations, one for one and in order, the source Link it  *)
(* was given and empty docs; it is stored in that step and in no other,   *)
(* and its Link is what is returned. A file whose parsing fails stores no *)
(* package.                                                                *)

\* C10, the return: only at end of input, with the package of the file's
\* declarations in order, stored in this step, its Link returned
C10_Return ==
  /\ Returns =>
       LET f == Top
           text == fs'[f.env.path]
           pk == [name |-> f.name, docs |-> "", source |-> f.source,
                  decls |-> f.decls]
       IN  /\ text.closed /\ f.pos = Len(text.decls) + 1
           /\ Len(f.decls) = Len(text.decls)
           /\ \A j \in 1..Len(f.decls) :
                /\ f.decls[j].name = text.decls[j].name
                /\ f.decls[j].tag = "Defn" <=> text.decls[j].kw = "def"
           /\ hashspace.text[f.source.ix] = f.env.path
           /\ \E i \in 1..Len(hashspace'.pack) :
                /\ hashspace'.pack[i] = pk
                /\ IF stack' = <<>> /\ entry = "file"
                     THEN result' = [link |-> [kind |-> "pack", ix |-> i],
                                     pack |-> pk, defs |-> f.defs,
                                     refs |-> f.refs]
                     ELSE After.decls[Len(After.decls)].from
                            = [kind |-> "pack", ix |-> i]
           /\ \/ hashspace'.pack = hashspace.pack
              \/ hashspace'.pack = Append(hashspace.pack, pk)
  /\ ~Returns => hashspace'.pack = hashspace.pack

\* C10, failure: no file whose parsing panicked has a package in the store
C10_FailedStoresNothing ==
  status = "panic" =>
    \A i \in 1..Len(stack) : \A j \in 1..Len(hashspace.pack) :
      hashspace.text[hashspace.pack[j].source.ix] /= stack[i].env.path

\* C10: both, in every state and at every step
C10_PackageAssembly == []C10_FailedStoresNothing /\ [][C10_Return]_vars

C10_Witness_RootPackage ==
  /\ entry = "file" /\ status = "done"
  /\ Len(result.pack.decls) = 2
  /\ result.pack.decls[1].tag = "Defn" /\ result.pack.decls[2].tag = "Open"
  /\ result.pack.decls[2].from.kind = "pack"
  /\ result.pack.decls[2].from /= RealLink
  /\ hashspace.pack[result.link.ix] = result.pack

----------------------------------------------------------------------------
(* C11: the import branch runs against the tables that were current       *)
(* before the definition branch ran, and a failed alternation leaves the  *)
(* loop's reference table, definition store and declarations as they      *)
(* were.                                                                   *)

\* the def/open alternation ran in this step and both branches failed
AltFails ==
  \/ /\ stack /= <<>> /\ Top.phase = "body"
     /\ status = "run" /\ status' = "panic"
  \/ /\ stack = <<>> /\ repl'.lines = repl.lines + 1
     /\ \E i \in 1..Len(alts'.tried) : alts'.tried[i].branch = "eval"

\* C11, one step: after a failed alternation nothing of the loop changed;
\* an import taken after the definition branch failed keeps every binding
\* and record the loop had, and a call of parse_file leaves the caller as
\* it was
C11_Step ==
  /\ AltFails =>
       /\ stack' = stack /\ hashspace' = hashspace
       /\ repl'.refs = repl.refs /\ repl'.defs = repl.defs
       /\ repl'.decls = repl.decls
  /\ Imports =>
       LET s == alts'.src
           kept == {k \in DOMAIN Imported.refs :
                      s.with.some => k \in s.with.names}
           keys == {s.alias \o k : k \in kept}
       IN  /\ alts'.tried[Len(alts'.tried) - 1].branch = "defn"
           /\ alts'.tried[Len(alts'.tried) - 1].st = "nomatch"
           /\ \A n \in DOMAIN Before.refs \ keys :
                n \in DOMAIN After.refs /\ After.refs[n] = Before.refs[n]
           /\ \A l \in DOMAIN Before.defs \ DOMAIN Imported.defs :
                l \in DOMAIN After.defs /\ After.defs[l] = Before.defs[l]
           /\ After.decls = Append(Before.decls, After.decls[Len(After.decls)])
  /\ Len(stack') > Len(stack) =>
       /\ SubSeq(stack', 1, Len(stack)) = stack
       /\ repl'.refs = repl.refs /\ repl'.defs = repl.defs
       /\ repl'.decls = repl.decls

\* C11: every step is so
C11_RollbackByValue == [][C11_Step]_vars

C11_Witness_ImportAfterDefinition ==
  /\ stack /= <<>> /\ status = "run" /\ Len(Top.decls) = 2
  /\ Top.decls[1].tag = "Defn" /\ Top.decls[2].tag = "Open"
  /\ alts.src = SrcOpen(<<"real">>, AliasN, NoWith, RealLink)
  /\ alts.tried[1].branch = "defn" /\ alts.tried[1].st = "nomatch"
  /\ DOMAIN Top.refs = {NameX, AliasN \o NameX, AliasN \o NameY}

----------------------------------------------------------------------------
(* C12: resolving a path import never changes the importing file's own    *)
(* PackageEnv, so a path added for one import is not seen by a later      *)
(* sibling: opening a module twice in one file, or two modules that both  *)
(* import a third, never raises ImportCycle.                               *)

\* C12, one step: every call of parse_file that stays on the stack, and the
\* shell, keep the PackageEnv they had
C12_EnvKept ==
  /\ \A i \in 1..Len(stack) : i <= Len(stack') => stack'[i].env = stack[i].env
  /\ repl'.env = repl.env

\* C12, the consequence: ImportCycle names a file that is being parsed on
\* the current chain, never one whose import has finished; in particular
\* not a module the same file has already imported by path
C12_CycleOnlyOnChain ==
  (status = "panic" /\ err.kind = "ImportCycle") =>
    /\ \E i \in 1..Len(stack) : stack[i].env.path = err.path
    /\ \A j \in 1..Len(Top.decls) :
         ~(/\ Top.decls[j].tag = "Open"
           /\ fs[Top.env.path].decls[j].link = NoLink
           /\ Top.decls[j].name = alts.src.name)

\* C12: both, in every state and at every step
C12_SiblingIsolation == []C12_CycleOnlyOnChain /\ [][C12_EnvKept]_vars

C12_Witness_SameModuleTwice ==
  /\ stack /= <<>> /\ status = "run" /\ Len(Top.decls) = 2
  /\ fs[Top.env.path].decls =
       <<SrcOpen(<<"b">>, <<>>, NoWith, NoLink),
         SrcOpen(<<"b">>, <<>>, NoWith, NoLink)>>
  /\ Top.decls[1].from = Top.decls[2].from
  /\ Top.decls[1].from.kind = "pack"

----------------------------------------------------------------------------
(* C13: a nested path import enters the imported file with the importer's *)
(* ancestor set plus exactly the imported file's path, which was not in   *)
(* it: along a chain the sets grow strictly.                               *)

\* the ancestor set of whoever called the i-th parse_file of the chain
CallerOpen(i) == IF i = 1 THEN repl.env.open ELSE stack[i - 1].env.open

C13_AncestorSetGrows ==
  \A i \in 1..Len(stack) :
    (i > 1 \/ entry = "repl") =>
      /\ stack[i].env.path \notin CallerOpen(i)
      /\ stack[i].env.open = CallerOpen(i) \cup {stack[i].env.path}
      /\ Cardinality(stack[i].env.open) = Cardinality(CallerOpen(i)) + 1

C13_Witness_ChainOfThree ==
  /\ entry = "file" /\ Len(stack) = 3 /\ status = "run"
  /\ stack[1].env.open = {}
  /\ stack[2].env.open = {B}
  /\ stack[3].env.open = {B, C}

----------------------------------------------------------------------------
(* C14: an Open declaration records a resolved package Link: for a path   *)
(* import the Link parse_file returned, under which the imported file's   *)
(* finished package is stored; for an import by Link the Link written.    *)
(* Every Open declaration of every stored package refers to a stored      *)
(* package.                                                                *)

\* d, an Open declaration, refers to a stored package of the name it opens
Resolved(d) ==
  /\ d.from.kind = "pack" /\ d.from.ix \in 1..Len(hashspace.pack)
  /\ hashspace.pack[d.from.ix].name = d.name

AllResolved(decls) ==
  \A j \in 1..Len(decls) : decls[j].tag = "Open" => Resolved(decls[j])

C14_OpenRecordsPackageLink ==
  /\ \A i \in 1..Len(stack) :
       LET f == stack[i] IN
       \A j \in 1..Len(f.decls) :
         f.decls[j].tag = "Open" =>
           LET t == fs[f.env.path].decls[j]
               pk == hashspace.pack[f.decls[j].from.ix]
           IN  /\ Resolved(f.decls[j])
               /\ IF t.link /= NoLink
                    THEN f.decls[j].from = t.link
                    ELSE /\ hashspace.text[pk.source.ix]
                              = import_path(f.env.path, t.name)
                         /\ Len(pk.decls)
                              = Len(fs[import_path(f.env.path, t.name)].decls)
  /\ AllResolved(repl.decls)
  /\ \A i \in 1..Len(hashspace.pack) : AllResolved(hashspace.pack[i].decls)
  /\ status = "done" /\ entry = "file" => AllResolved(result.pack.decls)

C14_Witness_NestedPathImports ==
  /\ entry = "file" /\ status = "done"
  /\ Len(result.pack.decls) = 1 /\ result.pack.decls[1].tag = "Open"
  /\ fs[A].decls[1].link = NoLink
  /\ LET pk == hashspace.pack[result.pack.decls[1].from.ix]
     IN  /\ pk.name = <<"b">> /\ Len(pk.decls) = 1
         /\ pk.decls[1].tag = "Open" /\ pk.decls[1].from /= RealLink

----------------------------------------------------------------------------
(* C15: a successful def name gives the reference table it had, except    *)
(* that name maps to (defn Link, term Link), and the definition store it  *)
(* had plus defn Link -> the definition's record. A name already bound is *)
(* defined again without complaint: its binding is overwritten, the       *)
(* earlier record stays in the store, both declarations stay.             *)

\* the step adds a definition to the one parsing
Defines ==
  /\ Len(stack') = Len(stack)
  /\ Len(After.decls) = Len(Before.decls) + 1
  /\ After.decls[Len(After.decls)].tag = "Defn"

\* C15, one step
C15_Step ==
  /\ Defines =>
       LET d == After.decls[Len(After.decls)]
           rec == hashspace'.def[d.defn.ix]
       IN  /\ d.name = alts'.src.name
           /\ d.defn.kind = "def" /\ d.defn.ix \in 1..Len(hashspace'.def)
           /\ rec.name = d.name /\ rec.term = d.term
           /\ After.refs =
                [n \in DOMAIN Before.refs \cup {d.name} |->
                   IF n = d.name THEN <<d.defn, d.term>> ELSE Before.refs[n]]
           /\ After.defs =
                [l \in DOMAIN Before.defs \cup {d.defn} |->
                   IF l = d.defn THEN rec ELSE Before.defs[l]]
           /\ After.decls = Append(Before.decls, d)
  /\ (AltFails /\ alts'.src.kw = "def")
       => ~(alts'.src.uses \subseteq DOMAIN Before.refs)

\* C15: every step is so
C15_EffectOfDefinition == [][C15_Step]_vars

C15_Witness_Redefinition ==
  /\ stack /= <<>> /\ status = "run" /\ Len(Top.decls) = 2
  /\ fs[Top.env.path].decls = <<SrcDef(NameX, {}, 5), SrcDef(NameX, {}, 8)>>
  /\ Top.decls[1].tag = "Defn" /\ Top.decls[2].tag = "Defn"
  /\ Top.decls[1].term /= Top.decls[2].term
  /\ DOMAIN Top.refs = {NameX}
  /\ Top.refs[NameX] = <<Top.decls[2].defn, Top.decls[2].term>>
  /\ DOMAIN Top.defs = {Top.decls[1].defn, Top.decls[2].defn}
  /\ Top.decls[1].defn /= Top.decls[2].defn

----------------------------------------------------------------------------
(* C16: the shell's reference table and definition store are what the     *)
(* lines that parsed as declarations give, applied in the order entered,  *)
(* and decls holds those declarations in that order; a line that fails, a *)
(* :browse and an evaluated expression change none of them and the loop   *)
(* goes on; a line is evaluated only after browse, quit and both          *)
(* declaration branches failed on it.                                      *)

\* the shell read a line in this step
Reads == stack = <<>> /\ repl'.lines = repl.lines + 1

\* the branch b of the last alternation ended in st
Ended(tried, b, sts) ==
  \E i \in 1..Len(tried) : tried[i].branch = b /\ tried[i].st \in sts

\* C16, in every state: the tables are the fold of decls
C16_TablesFollowDecls ==
  LET ns == refs_defs_from(hashspace, repl.decls, 1, Empty, Empty)
  IN  ns.ok /\ repl.refs = ns.refs /\ repl.defs = ns.defs

\* C16, one line
C16_Line ==
  Reads =>
    LET t == alts'.tried IN
    /\ Ended(t, "eval", {"ok", "nomatch"}) =>
         /\ Len(t) = 5 /\ t[5].branch = "eval"
         /\ t[1].branch = "browse" /\ t[1].st = "nomatch"
         /\ t[2].branch = "quit" /\ t[2].st = "nomatch"
         /\ t[3].branch = "defn" /\ t[3].st \in {"nomatch", "err"}
         /\ t[4].branch = "open" /\ t[4].st \in {"nomatch", "err"}
    /\ (Ended(t, "eval", {"ok", "nomatch"}) \/ Ended(t, "browse", {"ok"})) =>
         /\ repl'.refs = repl.refs /\ repl'.defs = repl.defs
         /\ repl'.decls = repl.decls
         /\ status' = "run" /\ stack' = <<>>
    /\ (Ended(t, "defn", {"ok"}) \/ Ended(t, "open", {"ok"})) =>
         /\ Len(repl'.decls) = Len(repl.decls) + 1
         /\ SubSeq(repl'.decls, 1, Len(repl.decls)) = repl.decls
         /\ status' = "run"
    /\ Ended(t, "quit", {"ok"}) =>
         /\ status' = "done"
         /\ repl'.refs = repl.refs /\ repl'.defs = repl.defs
         /\ repl'.decls = repl.decls

\* C16, between lines: only the return of an import changes the tables,
\* by one declaration
C16_Between ==
  (entry = "repl" /\ ~Reads) =>
    \/ /\ repl'.refs = repl.refs /\ repl'.defs = repl.defs
       /\ repl'.decls = repl.decls
    \/ /\ Returns /\ stack' = <<>> /\ Imports

\* C16: all three
C16_SessionState ==
  []C16_TablesFollowDecls /\ [][C16_Line /\ C16_Between]_vars

C16_Witness_EvalAfterDefinition ==
  /\ entry = "repl" /\ status = "run" /\ repl.lines = 2
  /\ alts.src = SrcExpr({NameX})
  /\ Len(alts.tried) = 5 /\ alts.tried[5].branch = "eval"
  /\ alts.tried[5].st = "ok"
  /\ Len(repl.decls) = 1 /\ repl.decls[1].tag = "Defn"
  /\ DOMAIN repl.refs = {NameX}

----------------------------------------------------------------------------
(* C17: in every namespace, at every point of parsing, the definition     *)
(* Link of every entry of the reference table is a key of the definition  *)
(* store of the same namespace.                                            *)

Backed(refs, defs) == \A n \in DOMAIN refs : refs[n][1] \in DOMAIN defs

C17_NamesAreBacked ==
  /\ \A i \in 1..Len(stack) : Backed(stack[i].refs, stack[i].defs)
  /\ Backed(repl.refs, repl.defs)
  /\ Backed(result.refs, result.defs)

C17_Witness_SelectedImport ==
  /\ stack /= <<>> /\ status = "run" /\ Len(Top.decls) = 2
  /\ Top.decls[1].tag = "Defn" /\ Top.decls[1].name = NameX
  /\ alts.src = SrcOpen(<<"real">>, <<>>, With({NameX}), RealLink)
  /\ DOMAIN Top.refs = {NameX}
  /\ Top.refs[NameX][1] /= Top.decls[1].defn
  /\ Cardinality(DOMAIN Top.defs) = 3

----------------------------------------------------------------------------
(* C18: the root file and the shell start with an empty ancestor set; a   *)
(* file entered at depth k >= 1 has exactly the k paths opened along the  *)
(* chain down to itself, the root's own path among them only if the root  *)
(* was opened again by path; ImportCycle is raised exactly when the       *)
(* target of a path import is one of them.                                 *)

\* the paths opened by the calls of parse_file from the j-th to the i-th
ChainPaths(j, i) == {stack[m].env.path : m \in j..i}

\* C18, in every state: what each ancestor set holds
C18_SetIsChain ==
  /\ repl.env.open = {}
  /\ \A i \in 1..Len(stack) :
       IF entry = "file"
         THEN /\ stack[i].env.open = ChainPaths(2, i)
              /\ Cardinality(stack[i].env.open) = i - 1
         ELSE /\ stack[i].env.open = ChainPaths(1, i)
              /\ Cardinality(stack[i].env.open) = i
  /\ (status = "panic" /\ err.kind = "ImportCycle")
       => err.path \in Top.env.open

\* a path import is resolved in this step
OpensByPath ==
  /\ alts'.src.kw = "open" /\ alts'.src.link = NoLink
  /\ \/ Len(stack') = Len(stack) + 1
     \/ AltFails

\* C18, one path import: it fails with ImportCycle exactly when its target
\* is in the ancestor set of the file it stands in
C18_CycleExactly ==
  OpensByPath =>
    LET env == IF stack = <<>> THEN repl.env ELSE Top.env
        target == import_path(env.path, alts'.src.name)
    IN  /\ (target \in env.open)
             <=> (status' = "panic" /\ err' =
                    Error("ImportCycle", <<>>, NoLink, <<>>, target))
        /\ (target \notin env.open)
             <=> (Len(stack') = Len(stack) + 1
                    /\ stack'[Len(stack')].env.path = target)

\* C18: both
C18_AncestorSetIsTheChain == []C18_SetIsChain /\ [][C18_CycleExactly]_vars

C18_Witness_RootOpenedAgain ==
  /\ entry = "file" /\ status = "run" /\ Len(stack) = 3
  /\ stack[1].env.path = A /\ stack[1].env.open = {}
  /\ stack[2].env.open = {B}
  /\ stack[3].env.path = A /\ stack[3].env.open = {A, B}

----------------------------------------------------------------------------
(* C19: the shell never reaches its "todo repl command" abort: every line *)
(* that parses gives Browse, Quit, Decl or Eval; the loop ends only by    *)
(* Quit, by a failed read, or by a panic inside a path import.            *)

\* C19, in every state: a panic of the shell is a panic of parse_file
C19_NoTodo ==
  /\ err /= TodoReplCommand
  /\ (entry = "repl" /\ status = "panic") => stack /= <<>>

\* C19, one step of the shell: a line read leaves the loop only by Quit;
\* otherwise the loop ends by a failed read or inside parse_file
C19_LoopEnds ==
  /\ Reads => (status' = "done" <=> alts'.src = Quit) /\ status' /= "panic"
  /\ (entry = "repl" /\ status = "run" /\ status' /= "run" /\ ~Reads) =>
       \/ /\ status' = "done" /\ stack = <<>>
          /\ UNCHANGED <<repl, alts, stack, hashspace, fs, err>>
       \/ status' = "panic" /\ stack /= <<>> /\ stack' = stack

\* C19: both
C19_TodoUnreachable == []C19_NoTodo /\ [][C19_LoopEnds]_vars

C19_Witness_DeclThenQuit ==
  /\ entry = "repl" /\ status = "done" /\ repl.lines = 2
  /\ alts.src = Quit /\ alts.tried[Len(alts.tried)].st = "ok"
  /\ Len(repl.decls) = 1

====
